---- MODULE Spec2Model ----
(***************************************************************************)
(* Recording session controller and text injection of Whisper4Windows      *)
(* (src/frontend/src-tauri/src/lib.rs).                                     *)
(*                                                                         *)
(* Every hotkey press, menu click or invoked command runs as its own async  *)
(* task on a multi-threaded runtime; a task is modelled by a record with a  *)
(* program position (pc) and its locals, and one action is one step of a    *)
(* task between two points where another task can run.  The recording       *)
(* overlay window is created once in setup (lib.rs:592) and never           *)
(* destroyed, so get_webview_window("recording") is always Some.            *)
(* The system clipboard is changed only by this program in the model.       *)
(***************************************************************************)
EXTENDS Integers, Sequences, FiniteSets, TLC

\* ---------------------------------------------------------------- bounds
\* Number of triggers (hotkey presses, menu clicks, invoked commands) in a run.
MaxTriggers == 3
\* Number of tasks that may be in flight at the same time.
MaxActive == 2
\* Longest text (in characters) handed to inject_text.
MaxTextLen == 1

\* ---------------------------------------------------------------- values
\* Option<T>: None is the empty tuple, Some(x) the one-element tuple.
None == <<>>
Some(x) == <<x>>
IsSome(o) == o # None
Unwrap(o) == o[1]

\* The characters of the texts: one outside the BMP, which takes two UTF-16
\* units.  (The prior clipboard content holds a BMP character.)
Chars == {128512}

RECURSIVE SeqsUpTo(_, _)
SeqsUpTo(S, n) ==
    IF n = 0 THEN {<<>>}
    ELSE LET shorter == SeqsUpTo(S, n - 1)
         IN  shorter \cup {Append(s, c) : s \in {x \in shorter : Len(x) = n - 1}, c \in S}

Texts == SeqsUpTo(Chars, MaxTextLen)

\* str::encode_utf16 (lib.rs:138): one unit for a BMP character, a surrogate
\* pair for the others.
RECURSIVE EncodeUtf16(_)
EncodeUtf16(s) ==
    IF s = <<>> THEN <<>>
    ELSE LET c == Head(s)
             units == IF c < 65536 THEN <<c>>
                      ELSE << 55296 + ((c - 65536) \div 1024),
                              56320 + ((c - 65536) % 1024) >>
         IN  units \o EncodeUtf16(Tail(s))

\* The text a sequence of UTF-16 units stands for (the reader's side of
\* CF_UNICODETEXT): a surrogate pair is one character.
RECURSIVE DecodeUtf16(_)
DecodeUtf16(u) ==
    IF u = <<>> THEN <<>>
    ELSE IF Head(u) >= 55296 /\ Head(u) < 56320 /\ Len(u) >= 2
         THEN <<65536 + (Head(u) - 55296) * 1024 + (u[2] - 56320)>>
                  \o DecodeUtf16(Tail(Tail(u)))
         ELSE <<Head(u)>> \o DecodeUtf16(Tail(u))

\* Faulty variant of TextUtf16: the terminating 0 is not pushed.
TextUtf16_NoTerminator(text) == EncodeUtf16(text)

\* inject_text, lib.rs:138-139: the text as UTF-16 with a terminating 0.
TextUtf16(text) == Append(EncodeUtf16(text), 0)

\* The clipboard's text content before the program touches it: no text at all
\* (empty or non-text data), a zero-sized text block, or the text "a".
PriorClips == {None, Some(<<>>), Some(<<97, 0>>)}

\* The values the settings commands are called with.
Models == {"small", "base"}
Devices == {"auto", "cuda"}
Microphones == {None, Some(1)}
Languages == {"en", "auto"}

\* How an awaited send of a detached request ends.
SendOutcomes == {"success", "bad_status", "transport_error"}

\* ---------------------------------------------------------------- state
VARIABLES
    visible,        \* the recording overlay window is visible
    session,        \* number of hidden -> visible transitions so far
    use_clipboard,  \* AppState.use_clipboard
    clip,           \* CF_UNICODETEXT content of the system clipboard (Option of units)
    clipOpen,       \* this process holds the clipboard open
    triggers,       \* number of triggers so far
    tasks,          \* per task slot: the task running in it, if any
    pending,        \* detached /start and /cancel requests spawned and not sent yet
    sent,           \* the requests the backend has been sent
    selected_model,       \* AppState.selected_model
    selected_device,      \* AppState.selected_device
    selected_microphone,  \* AppState.selected_microphone (Option of a device index)
    selected_language,    \* AppState.selected_language
    set_calls,      \* the (model, device) arguments of the set_model_and_device calls so far
    backend_child,  \* AppState.backend_child (Option of the process handle)
    child_locked,   \* the mutex of backend_child is held
    kills,          \* number of kill() calls on the backend child
    cancelled,      \* the sessions whose overlay a cancel has hidden
    resolved,       \* the detached request whose call has ended and is being logged
    overlap         \* the injections under way: <<"none", None>>, or <<"clean", c>>
                    \* when every one of them so far ran with the flag false and
                    \* without a failure and the clipboard held c before the first
                    \* began, or <<"dirty", None>>
\* A request is a record of its path, of its JSON body if it has one, and of
\* whether the task that made it had shown the overlay before.

\* The configuration a start reads, and the backend process.
settings == <<selected_model, selected_device, selected_microphone, selected_language, set_calls>>
process == <<backend_child, child_locked, kills>>

vars == <<visible, session, use_clipboard, clip, clipOpen, triggers, tasks, pending, sent,
          settings, process, cancelled, resolved, overlap>>

TaskIds == 1..MaxActive
Active(t) == tasks[t].pc # "idle"
FreeSlots == {t \in TaskIds : ~Active(t)}

\* A new task: its kind, its first position, the arguments of the command.
NewTask(kind, cmd, pc, text, flag) ==
    [ text     |-> text,      \* text_to_inject / the text argument (Option)
      pc       |-> pc,
      kind     |-> kind,      \* what started the task
      cmd      |-> cmd,       \* the command it runs: start, stop, cancel, inject
      flag     |-> flag,      \* save_to_clipboard
      old      |-> None,      \* old_clipboard of inject_text
      prior    |-> None,      \* the clipboard content when inject_text was entered
      setFail  |-> "none",    \* where the write of the text failed, if it did
      result   |-> "none",    \* what the command returned: "Ok" or "Err"
      sess     |-> 0,         \* session the task found when it looked at the overlay
      sawVisible |-> FALSE,   \* the overlay was visible when the command began
      notified |-> FALSE,     \* showProcessing() was called on the overlay
      spawned  |-> FALSE,     \* the detached /cancel request was spawned
      stopSent |-> FALSE,     \* /stop was sent
      answered |-> FALSE,     \* the /stop call has ended
      answer   |-> "none",    \* how the /stop call ended
      shown    |-> FALSE,     \* the task showed the overlay
      hid      |-> FALSE,     \* the task hid the overlay
      hideFailed |-> FALSE,   \* the task's hide() returned an error
      injErr   |-> FALSE,     \* inject_text returned an error
      reads    |-> 0,         \* clipboard reads by the task
      writes   |-> 0,         \* clipboard write attempts by the task
      restores |-> 0,         \* restore writes attempted by the task
      keys     |-> 0,         \* SendInput calls by the task
      restoreOk |-> FALSE,    \* the restore write returned Ok
      model    |-> "",        \* model of cmd_start_recording / of set_model_and_device
      device   |-> "",        \* device of cmd_start_recording / of set_model_and_device
      microphone |-> None,    \* microphone of cmd_start_recording
      language |-> "",        \* language of cmd_start_recording
      child    |-> None,      \* the handle a quit handler took
      typed    |-> <<>>,      \* the keyboard inputs handed to SendInput, in order
      clipAtKey |-> None,     \* the clipboard content at the SendInput call
      flagAtStop |-> FALSE ]  \* the clipboard setting when the stop began

IdleTask == NewTask("none", "none", "idle", None, FALSE)

Init ==
    /\ visible = FALSE
    /\ session = 0
    /\ use_clipboard = TRUE
    /\ clip \in PriorClips
    /\ clipOpen = FALSE
    /\ triggers = 0
    /\ tasks = [t \in TaskIds |-> IdleTask]
    /\ pending = {}
    /\ sent = {}
    /\ selected_model = "small"
    /\ selected_device = "auto"
    /\ selected_microphone = None
    /\ selected_language = "en"
    /\ set_calls = {}
    /\ backend_child = Some("whisper-backend")
    /\ child_locked = FALSE
    /\ kills = 0
    /\ cancelled = {}
    /\ resolved = {}
    /\ overlap = <<"none", None>>


\* ---------------------------------------------------------------- clipboard
\* Where a Win32 call of get_clipboard_text / set_clipboard_text can fail.
GetFailures == {"none", "open", "getdata", "lock"}
SetFailures == {"none", "open", "empty", "alloc", "lock", "setdata"}

\* GlobalSize of a text block, in bytes.
GlobalSize(block) == 2 * Len(block)

\* Faulty variant of GetClipboardText: the block's size in bytes is divided by
\* four, so that only half of the units are read.
GetClipboardText_HalfSize(c, open, failAt) ==
    IF failAt = "open" THEN [open |-> open, value |-> None]
    ELSE IF c = None \/ failAt = "getdata" THEN [open |-> FALSE, value |-> None]
    ELSE IF failAt = "lock" THEN [open |-> FALSE, value |-> None]
    ELSE IF GlobalSize(Unwrap(c)) = 0 THEN [open |-> FALSE, value |-> None]
    ELSE [open  |-> FALSE,
          value |-> Some(SubSeq(Unwrap(c), 1, GlobalSize(Unwrap(c)) \div 4))]

\* get_clipboard_text: the value returned and whether the clipboard is left
\* open.  c is the clipboard's text content, open whether it was open before.
GetClipboardText(c, open, failAt) ==
    IF failAt = "open" THEN [open |-> open, value |-> None]
    ELSE IF c = None \/ failAt = "getdata" THEN [open |-> FALSE, value |-> None]
    ELSE IF failAt = "lock" THEN [open |-> FALSE, value |-> None]
    ELSE IF GlobalSize(Unwrap(c)) = 0 THEN [open |-> FALSE, value |-> None]
    ELSE [open  |-> FALSE,
          value |-> Some(SubSeq(Unwrap(c), 1, GlobalSize(Unwrap(c)) \div 2))]

\* set_clipboard_text: the clipboard content afterwards, whether the clipboard
\* is left open, and whether the call returned Ok.
SetClipboardText(c, open, data, failAt) ==
    IF failAt = "open" THEN [clip |-> c, open |-> open, ok |-> FALSE]
    ELSE IF failAt = "empty" THEN [clip |-> c, open |-> FALSE, ok |-> FALSE]
    \* GlobalAlloc(..).map_err(..)? returns without CloseClipboard
    ELSE IF failAt = "alloc" THEN [clip |-> None, open |-> TRUE, ok |-> FALSE]
    ELSE IF failAt = "lock" THEN [clip |-> None, open |-> FALSE, ok |-> FALSE]
    ELSE IF failAt = "setdata" THEN [clip |-> None, open |-> FALSE, ok |-> FALSE]
    ELSE [clip |-> Some(data), open |-> FALSE, ok |-> TRUE]

\* ---------------------------------------------------------------- triggers
CanTrigger == triggers < MaxTriggers /\ FreeSlots # {}

\* No command has just returned.
NoneDone == resolved = {} /\ \A t \in TaskIds : tasks[t].pc # "done"

\* The positions at which cmd_start_recording reads the configuration
\* (lib.rs:208-211).  These reads touch nothing but the task's locals and the
\* settings, which only the settings commands write: they commute with every
\* other step, and are taken before any step but those of the settings
\* commands.
ConfigReads == {"start_model", "start_device", "start_microphone", "start_language"}
Settled == NoneDone /\ \A t \in TaskIds : tasks[t].pc \notin ConfigReads

\* The new task takes the first slot in which no task is running.  With
\* apart, triggers come a human's time apart: only when no task is in flight.
Spawn(task, apart) ==
    /\ CanTrigger
    /\ Settled
    /\ apart => \A t \in TaskIds : ~Active(t)
    /\ triggers' = triggers + 1
    /\ LET slot == CHOOSE t \in FreeSlots : \A u \in FreeSlots : t <= u
       IN  tasks' = [tasks EXCEPT ![slot] = task]
    /\ UNCHANGED <<visible, session, use_clipboard, clip, clipOpen, pending, sent, settings, process, cancelled, resolved, overlap>>

\* F9 pressed (global shortcut handler) or tray menu item "toggle": a task
\* running cmd_toggle_recording.
TogglePressed(apart) == Spawn(NewTask("toggle", "none", "toggle_check", None, FALSE), apart)

\* Escape pressed: a task that cancels if the overlay is visible.
EscapePressed(apart) == Spawn(NewTask("escape", "none", "esc_check", None, FALSE), apart)

\* The commands invoked by the frontend.
InvokeStart(apart) ==
    Spawn([NewTask("invoke", "start", "start_model", None, FALSE)
              EXCEPT !.sawVisible = visible, !.sess = session], apart)
InvokeStop(apart) ==
    Spawn([NewTask("invoke", "stop", "stop_notify", None, FALSE)
              EXCEPT !.sawVisible = visible, !.sess = session], apart)
InvokeCancel(apart) ==
    Spawn([NewTask("invoke", "cancel", "cancel_spawn", None, FALSE)
              EXCEPT !.sawVisible = visible, !.sess = session], apart)
\* inject_text_directly(text, save_to_clipboard), after its 50 ms delay.
InvokeInject(text, flag, apart) ==
    Spawn(NewTask("invoke", "inject", "inj_get", Some(text), flag), apart)

\* set_clipboard_paste(enabled)
SetClipboardPaste(enabled) ==
    /\ Settled
    /\ triggers < MaxTriggers
    /\ use_clipboard # enabled
    /\ use_clipboard' = enabled
    /\ triggers' = triggers + 1
    /\ UNCHANGED <<visible, session, clip, clipOpen, tasks, pending, sent, settings, process, cancelled, resolved, overlap>>

\* Tray menu item "quit": a task that kills the backend and exits.
QuitClicked(apart) == Spawn(NewTask("menu", "quit", "quit_take", None, FALSE), apart)

\* set_model_and_device(model, device): the arguments are the task's locals.
InvokeSetModelAndDevice(model, device, apart) ==
    Spawn([NewTask("invoke", "set_model_and_device", "set_model", None, FALSE)
              EXCEPT !.model = model, !.device = device], apart)

\* set_microphone_device(device_index)
SetMicrophoneDevice(device_index, apart) ==
    /\ NoneDone
    /\ apart => \A t \in TaskIds : ~Active(t)
    /\ selected_microphone # device_index
    /\ selected_microphone' = device_index
    /\ UNCHANGED <<visible, session, use_clipboard, clip, clipOpen, triggers, tasks, pending, sent,
                   selected_model, selected_device, selected_language, set_calls, process, cancelled, resolved, overlap>>

\* set_language(language)
SetLanguage(language, apart) ==
    /\ NoneDone
    /\ apart => \A t \in TaskIds : ~Active(t)
    /\ selected_language # language
    /\ selected_language' = language
    /\ UNCHANGED <<visible, session, use_clipboard, clip, clipOpen, triggers, tasks, pending, sent,
                   selected_model, selected_device, selected_microphone, set_calls, process, cancelled, resolved, overlap>>

\* ---------------------------------------------------------------- steps
At(t, pc) == tasks[t].pc = pc /\ (IF pc \in ConfigReads THEN NoneDone ELSE Settled)

\* The task after its command has returned result.
Finish(task, result) == [task EXCEPT !.pc = "done", !.result = result]

\* Task t becomes next.
Update(t, next) == tasks' = [tasks EXCEPT ![t] = next]

\* Task t is inside inject_text, past the read of the old clipboard.
MidInjection(t) == tasks[t].pc \in {"inj_set", "inj_key", "inj_restore"}

\* The record of the injections under way after a step of task t inside
\* inject_text; clean says that the step met no failure and that the flag is
\* false.
OverlapAfter(t, clean, before) ==
    IF ~clean THEN <<"dirty", None>>
    ELSE IF \E u \in TaskIds : MidInjection(u) THEN overlap
    ELSE <<"clean", before>>

\* The spawned task ends after its command has returned (lib.rs:516-518,
\* 636-643, 647-649), or the command's result has gone back to the frontend.
\* Nothing lies between the return and the end of the task, and the end
\* changes nothing another task can see: it is taken before any other step,
\* so that a state with a task at "done" is the state in which its command
\* returned.
TaskExit(t) ==
    /\ tasks[t].pc = "done"
    /\ tasks' = [tasks EXCEPT ![t] = IdleTask]
    /\ UNCHANGED <<visible, session, use_clipboard, clip, clipOpen, triggers, pending, sent, settings, process, cancelled, resolved>>
    /\ overlap' = IF \E u \in TaskIds : MidInjection(u) THEN overlap ELSE <<"none", None>>

\* Faulty variant of ToggleChoice: the start it chooses spawns the /start
\* request without showing the overlay first.
ToggleChoice_RequestFirst(vis) ==
    IF vis THEN [pc |-> "stop_notify", cmd |-> "stop"]
    ELSE [pc |-> "start_spawn", cmd |-> "start"]

\* set_model_and_device: the model is written under its lock, then the device
\* under its own.
SetModel(t) ==
    /\ tasks[t].pc = "set_model" /\ NoneDone
    /\ selected_model' = tasks[t].model
    /\ set_calls' = set_calls \cup {<<tasks[t].model, tasks[t].device>>}
    /\ UNCHANGED <<visible, session, use_clipboard, clip, clipOpen, triggers, pending, sent,
                   selected_device, selected_microphone, selected_language, process, cancelled, resolved, overlap>>
    /\ Update(t, [tasks[t] EXCEPT !.pc = "set_device"])

SetDevice(t) ==
    /\ tasks[t].pc = "set_device" /\ NoneDone
    /\ selected_device' = tasks[t].device
    /\ UNCHANGED <<visible, session, use_clipboard, clip, clipOpen, triggers, pending, sent,
                   selected_model, selected_microphone, selected_language, set_calls, process, cancelled, resolved, overlap>>
    /\ Update(t, Finish(tasks[t], "Ok"))

\* cmd_toggle_recording: the command is_visible chooses, and where it begins.
ToggleChoice(vis) ==
    IF vis THEN [pc |-> "stop_notify", cmd |-> "stop"]
    ELSE [pc |-> "start_model", cmd |-> "start"]

\* cmd_toggle_recording: is_visible decides between stop and start.
ToggleCheck(t) ==
    /\ At(t, "toggle_check")
    /\ UNCHANGED <<visible, session, use_clipboard, clip, clipOpen, triggers, pending, sent, settings, process, cancelled, resolved, overlap>>
    /\ Update(t, [tasks[t] EXCEPT !.cmd = ToggleChoice(visible).cmd,
                                  !.pc = ToggleChoice(visible).pc,
                                  !.sawVisible = visible,
                                  !.sess = session])

\* Escape handler: cmd_cancel_recording only if the overlay is visible.
EscCheck(t) ==
    /\ At(t, "esc_check")
    /\ UNCHANGED <<visible, session, use_clipboard, clip, clipOpen, triggers, pending, sent, settings, process, cancelled, resolved, overlap>>
    /\ Update(t, IF visible
                 THEN [tasks[t] EXCEPT !.cmd = "cancel", !.pc = "cancel_spawn",
                                       !.sawVisible = TRUE, !.sess = session]
                 ELSE Finish(tasks[t], "Ok"))

\* cmd_start_recording: the four reads of the configuration, each under its
\* own lock.
StartReadModel(t) ==
    /\ At(t, "start_model")
    /\ UNCHANGED <<visible, session, use_clipboard, clip, clipOpen, triggers, pending, sent, settings, process, cancelled, resolved, overlap>>
    /\ Update(t, [tasks[t] EXCEPT !.pc = "start_device", !.model = selected_model])

StartReadDevice(t) ==
    /\ At(t, "start_device")
    /\ UNCHANGED <<visible, session, use_clipboard, clip, clipOpen, triggers, pending, sent, settings, process, cancelled, resolved, overlap>>
    /\ Update(t, [tasks[t] EXCEPT !.pc = "start_microphone", !.device = selected_device])

StartReadMicrophone(t) ==
    /\ At(t, "start_microphone")
    /\ UNCHANGED <<visible, session, use_clipboard, clip, clipOpen, triggers, pending, sent, settings, process, cancelled, resolved, overlap>>
    /\ Update(t, [tasks[t] EXCEPT !.pc = "start_language",
                                  !.microphone = selected_microphone])

StartReadLanguage(t) ==
    /\ At(t, "start_language")
    /\ UNCHANGED <<visible, session, use_clipboard, clip, clipOpen, triggers, pending, sent, settings, process, cancelled, resolved, overlap>>
    /\ Update(t, [tasks[t] EXCEPT !.pc = "start_show", !.language = selected_language])

\* cmd_start_recording: position and show the overlay; an error of a window
\* call is returned at once.
StartShow(t, ok) ==
    /\ At(t, "start_show")
    /\ visible' = (visible \/ ok)
    /\ session' = IF ok /\ ~visible THEN session + 1 ELSE session
    /\ UNCHANGED <<use_clipboard, clip, clipOpen, triggers, pending, sent, settings, process, cancelled, resolved, overlap>>
    /\ Update(t, IF ok
                 THEN [tasks[t] EXCEPT !.pc = "start_spawn", !.shown = TRUE,
                                       !.sess = session']
                 ELSE Finish(tasks[t], "Err"))

\* The session a command's backend request belongs to: the session that was
\* recording when the command began or that the command started, 0 if none.
RequestSession(task) ==
    IF task.shown \/ task.sawVisible THEN task.sess ELSE 0

\* Faulty variant of LangValue: the language is sent as it is, "auto" too.
LangValue_NeverNull(language) == Some(language)

\* cmd_start_recording, lib.rs:238-242: JSON null for the language "auto",
\* else the language as a JSON string (None stands for null).
LangValue(language) == IF language = "auto" THEN None ELSE Some(language)

\* cmd_start_recording, lib.rs:244-253: the JSON object sent to /start; the key
\* device_index is added only if a microphone is selected.
StartBody(model, device, microphone, language) ==
    IF IsSome(microphone)
    THEN [device |-> device, language |-> LangValue(language),
          device_index |-> Unwrap(microphone), model_size |-> model]
    ELSE [device |-> device, language |-> LangValue(language), model_size |-> model]

\* cmd_start_recording: tokio::spawn of the /start request, then Ok.
StartSpawn(t) ==
    /\ At(t, "start_spawn")
    /\ pending' = pending \cup {[sess |-> RequestSession(tasks[t]), shown |-> tasks[t].shown, path |-> "/start",
                                 body |-> Some(StartBody(tasks[t].model, tasks[t].device,
                                                         tasks[t].microphone,
                                                         tasks[t].language))]}
    /\ UNCHANGED <<visible, session, use_clipboard, clip, clipOpen, triggers, sent, settings, process, cancelled, resolved, overlap>>
    /\ Update(t, Finish(tasks[t], "Ok"))

\* Faulty variant of SpawnedSend: a request that fails takes the overlay down.
SpawnedSend_FailureHides(r, outcome) ==
    /\ Settled
    /\ r \in pending
    /\ pending' = pending \ {r}
    /\ sent' = sent \cup {r}
    /\ resolved' = {<<r.path, outcome>>}
    /\ visible' = (visible /\ outcome = "success")
    /\ UNCHANGED <<session, use_clipboard, clip, clipOpen, triggers, tasks, settings, process, cancelled, overlap>>

\* The detached future of cmd_start_recording or cmd_cancel_recording: the
\* awaited send ends with a success status, another status or a transport
\* error.
SpawnedSend(r, outcome) ==
    /\ Settled
    /\ r \in pending
    /\ pending' = pending \ {r}
    /\ sent' = sent \cup {r}
    /\ resolved' = {<<r.path, outcome>>}
    /\ UNCHANGED <<visible, session, use_clipboard, clip, clipOpen, triggers, tasks, settings, process, cancelled, overlap>>

\* The detached future: the arm of the match writes its log line and the
\* future ends.
SpawnedLog ==
    /\ resolved # {}
    /\ resolved' = {}
    /\ UNCHANGED <<visible, session, use_clipboard, clip, clipOpen, triggers, tasks, pending, sent, settings, process, cancelled, overlap>>

\* Faulty variant of CancelSpawn: no /cancel request is spawned.
CancelSpawn_NoRequest(t) ==
    /\ At(t, "cancel_spawn")
    /\ UNCHANGED <<visible, session, use_clipboard, clip, clipOpen, triggers, pending, sent, settings, process, cancelled, resolved, overlap>>
    /\ Update(t, [tasks[t] EXCEPT !.pc = "cancel_hide", !.spawned = TRUE])

\* cmd_cancel_recording: tokio::spawn of the /cancel request.
CancelSpawn(t) ==
    /\ At(t, "cancel_spawn")
    /\ pending' = pending \cup {[sess |-> RequestSession(tasks[t]), shown |-> tasks[t].shown, path |-> "/cancel", body |-> None]}
    /\ UNCHANGED <<visible, session, use_clipboard, clip, clipOpen, triggers, sent, settings, process, cancelled, resolved, overlap>>
    /\ Update(t, [tasks[t] EXCEPT !.pc = "cancel_hide", !.spawned = TRUE])

\* Faulty variant of CancelHide: the cancel returns Ok without hiding the
\* overlay.
CancelHide_KeepsVisible(t, ok) ==
    /\ At(t, "cancel_hide")
    /\ UNCHANGED <<visible, session, use_clipboard, clip, clipOpen, triggers, pending, sent, settings, process, cancelled, resolved, overlap>>
    /\ Update(t, IF ok
                 THEN Finish([tasks[t] EXCEPT !.hid = TRUE], "Ok")
                 ELSE Finish([tasks[t] EXCEPT !.hideFailed = TRUE], "Err"))

\* cmd_cancel_recording: hide the overlay; an error of hide() is returned.
CancelHide(t, ok) ==
    /\ At(t, "cancel_hide")
    /\ visible' = (visible /\ ~ok)
    /\ cancelled' = IF ok /\ visible THEN cancelled \cup {session} ELSE cancelled
    /\ UNCHANGED <<session, use_clipboard, clip, clipOpen, triggers, pending, sent, settings, process, resolved, overlap>>
    /\ Update(t, IF ok
                 THEN Finish([tasks[t] EXCEPT !.hid = TRUE], "Ok")
                 ELSE Finish([tasks[t] EXCEPT !.hideFailed = TRUE], "Err"))

\* The ways the awaited /stop call can end: transport error, non-success
\* status, success without a string "text" field (or a body that is no JSON),
\* success with a transcript.
StopAnswers ==
    {[text |-> None, kind |-> k] : k \in {"transport_error", "bad_status", "no_text"}}
        \cup {[text |-> Some(x), kind |-> "text"] : x \in Texts}

\* Faulty variant of TextToInject: a success without a "text" field gives the
\* empty text to inject.
TextToInject_EmptyForNoText(answer) ==
    IF answer.kind = "text" THEN answer.text
    ELSE IF answer.kind = "no_text" THEN Some(<<>>) ELSE None

\* text_to_inject, from the outcome of the /stop call (lib.rs:318-345).
TextToInject(answer) == IF answer.kind = "text" THEN answer.text ELSE None

\* cmd_stop_recording: showProcessing() and playStopSound() on the overlay.
StopNotify(t) ==
    /\ At(t, "stop_notify")
    /\ UNCHANGED <<visible, session, use_clipboard, clip, clipOpen, triggers, pending, sent, settings, process, cancelled, resolved, overlap>>
    /\ Update(t, [tasks[t] EXCEPT !.pc = "stop_send", !.notified = TRUE,
                                  !.flagAtStop = use_clipboard])

\* cmd_stop_recording: after the 100 ms delay, POST /stop is sent.
StopSend(t) ==
    /\ At(t, "stop_send")
    /\ sent' = sent \cup {[sess |-> RequestSession(tasks[t]), shown |-> tasks[t].shown, path |-> "/stop", body |-> None]}
    /\ UNCHANGED <<visible, session, use_clipboard, clip, clipOpen, triggers, pending, settings, process, cancelled, resolved, overlap>>
    /\ Update(t, [tasks[t] EXCEPT !.pc = "stop_await", !.stopSent = TRUE])

\* Faulty variant of StopAnswer: with a transcript, the injection begins
\* before the overlay is hidden.
StopAnswer_InjectFirst(t, answer) ==
    /\ At(t, "stop_await")
    /\ UNCHANGED <<visible, session, use_clipboard, clip, clipOpen, triggers, pending, sent, settings, process, cancelled, resolved, overlap>>
    /\ Update(t, [tasks[t] EXCEPT !.pc = IF answer.kind = "text" THEN "stop_flag"
                                         ELSE "stop_hide",
                                  !.answered = TRUE,
                                  !.answer = answer.kind,
                                  !.text = TextToInject(answer)])

\* Faulty variant of StopAnswer: a transport failure is swallowed and the
\* command goes on waiting for a call that has already ended.
StopAnswer_HangsOnTransportError(t, answer) ==
    /\ At(t, "stop_await")
    /\ ~tasks[t].answered
    /\ UNCHANGED <<visible, session, use_clipboard, clip, clipOpen, triggers, pending, sent, settings, process, cancelled, resolved, overlap>>
    /\ Update(t, [tasks[t] EXCEPT !.pc = IF answer.kind = "transport_error"
                                         THEN "stop_await" ELSE "stop_hide",
                                  !.answered = TRUE,
                                  !.answer = answer.kind,
                                  !.text = TextToInject(answer)])

\* cmd_stop_recording: the awaited /stop call ends.
StopAnswer(t, answer) ==
    /\ At(t, "stop_await")
    /\ UNCHANGED <<visible, session, use_clipboard, clip, clipOpen, triggers, pending, sent, settings, process, cancelled, resolved, overlap>>
    /\ Update(t, [tasks[t] EXCEPT !.pc = "stop_hide", !.answered = TRUE,
                                  !.answer = answer.kind,
                                  !.text = TextToInject(answer)])

\* Faulty variant of StopHide: an error of hide() is logged and the command
\* goes on to inject.
StopHide_InjectsAnyway(t, ok) ==
    /\ At(t, "stop_hide")
    /\ visible' = (visible /\ ~ok)
    /\ UNCHANGED <<session, use_clipboard, clip, clipOpen, triggers, pending, sent, settings, process, cancelled, resolved, overlap>>
    /\ LET hidden == IF ok THEN [tasks[t] EXCEPT !.hid = TRUE]
                     ELSE [tasks[t] EXCEPT !.hideFailed = TRUE]
       IN  Update(t, IF IsSome(tasks[t].text)
                     THEN [hidden EXCEPT !.pc = "stop_flag"]
                     ELSE Finish(hidden, "Ok"))

\* cmd_stop_recording: hide the overlay; an error of hide() is returned at
\* once.  After the 150 ms delay, injection only if there is a transcript.
StopHide(t, ok) ==
    /\ At(t, "stop_hide")
    /\ visible' = (visible /\ ~ok)
    /\ UNCHANGED <<session, use_clipboard, clip, clipOpen, triggers, pending, sent, settings, process, cancelled, resolved, overlap>>
    /\ Update(t, IF ~ok THEN Finish([tasks[t] EXCEPT !.hideFailed = TRUE], "Err")
                 ELSE IF IsSome(tasks[t].text)
                      THEN [tasks[t] EXCEPT !.pc = "stop_flag", !.hid = TRUE]
                      ELSE Finish([tasks[t] EXCEPT !.hid = TRUE], "Ok"))

\* Faulty variant of StopReadFlag: the injection uses the setting as it was
\* when the stop began.
StopReadFlag_AtStop(t) ==
    /\ At(t, "stop_flag")
    /\ UNCHANGED <<visible, session, use_clipboard, clip, clipOpen, triggers, pending, sent, settings, process, cancelled, resolved, overlap>>
    /\ Update(t, [tasks[t] EXCEPT !.pc = "inj_get", !.flag = tasks[t].flagAtStop])

\* cmd_stop_recording: save_to_clipboard is read from the setting.
StopReadFlag(t) ==
    /\ At(t, "stop_flag")
    /\ UNCHANGED <<visible, session, use_clipboard, clip, clipOpen, triggers, pending, sent, settings, process, cancelled, resolved, overlap>>
    /\ Update(t, [tasks[t] EXCEPT !.pc = "inj_get", !.flag = use_clipboard])

\* ---------------------------------------------------------------- inject_text
\* Faulty variant of CallerResult: cmd_stop_recording passes the error of
\* inject_text on to its caller.
CallerResult_ErrForAll(cmd, injected) ==
    IF ~injected THEN "Err" ELSE "Ok"

\* What the caller of inject_text returns for the result of inject_text:
\* inject_text_directly maps the error to its own, cmd_stop_recording logs it.
CallerResult(cmd, injected) ==
    IF cmd = "inject" /\ ~injected THEN "Err" ELSE "Ok"

\* Faulty variant of InjGet: a read that gives no text returns without
\* CloseClipboard.
InjGet_LeavesOpen(t, failAt) ==
    /\ At(t, "inj_get")
    /\ tasks[t].flag => failAt = "none"
    /\ LET got == GetClipboardText(clip, clipOpen, failAt)
       IN  /\ clipOpen' = IF tasks[t].flag THEN clipOpen
                          ELSE IF got.value = None THEN TRUE ELSE got.open
           /\ UNCHANGED <<visible, session, use_clipboard, clip, triggers, pending, sent, settings, process, cancelled, resolved>>
           /\ overlap' = OverlapAfter(t, ~tasks[t].flag /\ got.value # None, clip)
           /\ Update(t, IF tasks[t].flag
                        THEN [tasks[t] EXCEPT !.pc = "inj_set"]
                        ELSE [tasks[t] EXCEPT !.pc = "inj_set", !.old = got.value,
                                              !.prior = clip, !.reads = @ + 1])

\* inject_text: old_clipboard is read only if the text is not to stay on the
\* clipboard.
InjGet(t, failAt) ==
    /\ At(t, "inj_get")
    /\ tasks[t].flag => failAt = "none"
    /\ LET got == GetClipboardText(clip, clipOpen, failAt)
       IN  /\ clipOpen' = IF tasks[t].flag THEN clipOpen ELSE got.open
           /\ UNCHANGED <<visible, session, use_clipboard, clip, triggers, pending, sent, settings, process, cancelled, resolved>>
           /\ overlap' = OverlapAfter(t, ~tasks[t].flag /\ got.value # None, clip)
           /\ Update(t, IF tasks[t].flag
                        THEN [tasks[t] EXCEPT !.pc = "inj_set"]
                        ELSE [tasks[t] EXCEPT !.pc = "inj_set", !.old = got.value,
                                              !.prior = clip, !.reads = @ + 1])

\* Faulty variant of InjSet: the result of the write is not looked at, the
\* keystroke follows a failed write too.
InjSet_KeyAnyway(t, failAt) ==
    /\ At(t, "inj_set")
    /\ LET set == SetClipboardText(clip, clipOpen, TextUtf16(Unwrap(tasks[t].text)), failAt)
       IN  /\ clip' = set.clip
           /\ clipOpen' = set.open
           /\ UNCHANGED <<visible, session, use_clipboard, triggers, pending, sent, settings, process, cancelled, resolved>>
           /\ overlap' = OverlapAfter(t, set.ok, None)
           /\ Update(t, IF set.ok
                        THEN [tasks[t] EXCEPT !.pc = "inj_key", !.writes = @ + 1]
                        ELSE [tasks[t] EXCEPT !.pc = "inj_key", !.writes = @ + 1,
                                              !.setFail = failAt])

\* inject_text: set_clipboard_text(&text_utf16)?
InjSet(t, failAt) ==
    /\ At(t, "inj_set")
    /\ LET set == SetClipboardText(clip, clipOpen, TextUtf16(Unwrap(tasks[t].text)), failAt)
       IN  /\ clip' = set.clip
           /\ clipOpen' = set.open
           /\ UNCHANGED <<visible, session, use_clipboard, triggers, pending, sent, settings, process, cancelled, resolved>>
           /\ overlap' = OverlapAfter(t, set.ok, None)
           /\ Update(t, IF set.ok
                        THEN [tasks[t] EXCEPT !.pc = "inj_key", !.writes = @ + 1]
                        ELSE Finish([tasks[t] EXCEPT !.writes = @ + 1, !.injErr = TRUE,
                                                     !.setFail = failAt],
                                    CallerResult(tasks[t].cmd, FALSE)))

\* Faulty variant of PasteInputs: the key goes down before the modifier.
PasteInputs_KeyFirst ==
    << <<"VK_V", "down">>, <<"VK_CONTROL", "down">>, <<"VK_V", "up">>, <<"VK_CONTROL", "up">> >>

\* inject_text, lib.rs:148-173: the inputs array, as virtual key and
\* direction (KEYEVENTF_KEYUP set or not).
PasteInputs ==
    << <<"VK_CONTROL", "down">>, <<"VK_V", "down">>, <<"VK_V", "up">>, <<"VK_CONTROL", "up">> >>

\* inject_text: after 10 ms, SendInput of Ctrl down, V down, V up, Ctrl up.
\* The restore follows only for a text not to stay and an old content read.
InjKey(t) ==
    /\ At(t, "inj_key")
    /\ UNCHANGED <<visible, session, use_clipboard, clip, clipOpen, triggers, pending, sent, settings, process, cancelled, resolved, overlap>>
    /\ LET keyed == [tasks[t] EXCEPT !.keys = @ + 1, !.typed = @ \o PasteInputs,
                                     !.clipAtKey = clip]
       IN  Update(t, IF ~keyed.flag /\ IsSome(keyed.old)
                     THEN [keyed EXCEPT !.pc = "inj_restore"]
                     ELSE Finish(keyed, CallerResult(keyed.cmd, TRUE)))

\* inject_text: after 50 ms, let _ = set_clipboard_text(&old_text).
InjRestore(t, failAt) ==
    /\ At(t, "inj_restore")
    /\ LET set == SetClipboardText(clip, clipOpen, Unwrap(tasks[t].old), failAt)
       IN  /\ clip' = set.clip
           /\ clipOpen' = set.open
           /\ UNCHANGED <<visible, session, use_clipboard, triggers, pending, sent, settings, process, cancelled, resolved>>
           /\ overlap' = OverlapAfter(t, set.ok, None)
           /\ Update(t, Finish([tasks[t] EXCEPT !.writes = @ + 1, !.restores = @ + 1,
                                                !.restoreOk = set.ok],
                               CallerResult(tasks[t].cmd, TRUE)))

\* ---------------------------------------------------------------- quit
\* Faulty variant of QuitTake: the handle is read and left in the state.
QuitTake_KeepsHandle(t) ==
    /\ At(t, "quit_take")
    /\ ~child_locked
    /\ backend_child' = backend_child
    /\ child_locked' = IsSome(backend_child)
    /\ UNCHANGED <<visible, session, use_clipboard, clip, clipOpen, triggers, pending, sent,
                   settings, kills, cancelled, resolved, overlap>>
    /\ Update(t, [tasks[t] EXCEPT !.child = backend_child,
                                  !.pc = IF IsSome(backend_child) THEN "quit_kill"
                                         ELSE "quit_exit"])

\* handle_menu_event "quit": state.backend_child.lock().await.take().  The
\* guard of the lock lives to the end of the if let: with a handle taken, the
\* lock is held until kill() has returned.
QuitTake(t) ==
    /\ At(t, "quit_take")
    /\ ~child_locked
    /\ backend_child' = None
    /\ child_locked' = IsSome(backend_child)
    /\ UNCHANGED <<visible, session, use_clipboard, clip, clipOpen, triggers, pending, sent,
                   settings, kills, cancelled, resolved, overlap>>
    /\ Update(t, [tasks[t] EXCEPT !.child = backend_child,
                                  !.pc = IF IsSome(backend_child) THEN "quit_kill"
                                         ELSE "quit_exit"])

\* handle_menu_event "quit": child.kill(), and the lock is released.
QuitKill(t) ==
    /\ At(t, "quit_kill")
    /\ kills' = kills + 1
    /\ child_locked' = FALSE
    /\ UNCHANGED <<visible, session, use_clipboard, clip, clipOpen, triggers, pending, sent,
                   settings, backend_child, cancelled, resolved, overlap>>
    /\ Update(t, [tasks[t] EXCEPT !.pc = "quit_exit"])

\* handle_menu_event "quit": app.exit(0).  What the process does between the
\* request to exit and its end is not followed: handlers still run.
QuitExit(t) ==
    /\ At(t, "quit_exit")
    /\ UNCHANGED <<visible, session, use_clipboard, clip, clipOpen, triggers, pending, sent, settings, process, cancelled, resolved, overlap>>
    /\ Update(t, Finish(tasks[t], "Ok"))

\* ---------------------------------------------------------------- specification
Run(apart) ==
    \/ TogglePressed(apart)
    \/ EscapePressed(apart)
    \/ InvokeStart(apart)
    \/ InvokeStop(apart)
    \/ InvokeCancel(apart)
    \/ \E text \in Texts, flag \in BOOLEAN : InvokeInject(text, flag, apart)
    \/ \E enabled \in BOOLEAN : SetClipboardPaste(enabled)
    \/ \E r \in pending, outcome \in SendOutcomes : SpawnedSend(r, outcome)
    \/ SpawnedLog
    \/ \E t \in TaskIds :
          \/ ToggleCheck(t)
          \/ EscCheck(t)
          \/ StartReadModel(t)
          \/ StartReadDevice(t)
          \/ StartReadMicrophone(t)
          \/ StartReadLanguage(t)
          \/ \E ok \in BOOLEAN : StartShow(t, ok)
          \/ StartSpawn(t)
          \/ CancelSpawn(t)
          \/ \E ok \in BOOLEAN : CancelHide(t, ok)
          \/ StopNotify(t)
          \/ StopSend(t)
          \/ \E answer \in StopAnswers : StopAnswer(t, answer)
          \/ \E ok \in BOOLEAN : StopHide(t, ok)
          \/ StopReadFlag(t)
          \/ \E failAt \in GetFailures : InjGet(t, failAt)
          \/ \E failAt \in SetFailures : InjSet(t, failAt)
          \/ InjKey(t)
          \/ \E failAt \in SetFailures : InjRestore(t, failAt)
          \/ TaskExit(t)

\* Any trigger at any time: every interleaving of the tasks.
Next == Run(FALSE)

Spec == Init /\ [][Next]_vars

\* Triggers a human's time apart: a new trigger arrives only when no task is
\* in flight (the detached requests may still be on their way).
NextSeq == Run(TRUE)

SpecSeq == Init /\ [][NextSeq]_vars

\* The steps of task t that the async runtime schedules: every step of a
\* command or handler except the end of an awaited backend call.
Scheduled(t) ==
    \/ ToggleCheck(t)
    \/ EscCheck(t)
    \/ StartReadModel(t)
    \/ StartReadDevice(t)
    \/ StartReadMicrophone(t)
    \/ StartReadLanguage(t)
    \/ \E ok \in BOOLEAN : StartShow(t, ok)
    \/ StartSpawn(t)
    \/ CancelSpawn(t)
    \/ \E ok \in BOOLEAN : CancelHide(t, ok)
    \/ StopNotify(t)
    \/ StopSend(t)
    \/ \E ok \in BOOLEAN : StopHide(t, ok)
    \/ StopReadFlag(t)
    \/ \E failAt \in GetFailures : InjGet(t, failAt)
    \/ \E failAt \in SetFailures : InjSet(t, failAt)
    \/ InjKey(t)
    \/ \E failAt \in SetFailures : InjRestore(t, failAt)
    \/ TaskExit(t)

\* The awaited POST /stop of task t ends, with a response or a transport
\* failure.
Answered(t) == \E answer \in StopAnswers : StopAnswer(t, answer)

\* The runtime runs every task that can take a step (its sleeps and lock
\* acquisitions end), and the backend or the transport ends every /stop call.
Fairness ==
    /\ \A t \in TaskIds : WF_vars(Scheduled(t)) /\ WF_vars(Answered(t))
    /\ WF_vars(SpawnedLog)

SpecLive == Init /\ [][NextSeq]_vars /\ Fairness


\* The settings commands and the starts that read what they write.
RunSettings(apart) ==
    \/ InvokeStart(apart)
    \/ \E model \in Models, device \in Devices : InvokeSetModelAndDevice(model, device, apart)
    \/ \E device_index \in Microphones : SetMicrophoneDevice(device_index, apart)
    \/ \E language \in Languages : SetLanguage(language, apart)
    \/ \E r \in pending, outcome \in SendOutcomes : SpawnedSend(r, outcome)
    \/ SpawnedLog
    \/ \E t \in TaskIds :
          \/ SetModel(t)
          \/ SetDevice(t)
          \/ StartReadModel(t)
          \/ StartReadDevice(t)
          \/ StartReadMicrophone(t)
          \/ StartReadLanguage(t)
          \/ \E ok \in BOOLEAN : StartShow(t, ok)
          \/ StartSpawn(t)
          \/ TaskExit(t)

\* The settings commands and the starts, a human's time apart.
NextSettingsSeq == RunSettings(TRUE)

SpecSettingsSeq == Init /\ [][NextSettingsSeq]_vars

\* The settings commands and the starts in every interleaving.
NextSettings == RunSettings(FALSE)

SpecSettings == Init /\ [][NextSettings]_vars

\* Quit events, at any time.
NextQuit ==
    \/ QuitClicked(FALSE)
    \/ \E t \in TaskIds :
          \/ QuitTake(t)
          \/ QuitKill(t)
          \/ QuitExit(t)
          \/ TaskExit(t)

SpecQuit == Init /\ [][NextQuit]_vars

\* ---------------------------------------------------------------- properties
\* The session status, read off the overlay as cmd_toggle_recording does.
Status == IF visible THEN "Recording" ELSE "Idle"

Returned(t) == tasks[t].pc = "done"
InjectSteps == {"stop_flag", "inj_get", "inj_set", "inj_key", "inj_restore"}
\* inject_text ran to its end in task t without an error.
Injected(t) == Returned(t) /\ tasks[t].keys = 1 /\ ~tasks[t].injErr

\* The clipboard holds text: a block of UTF-16 units that ends with the
\* terminator and reads as text before it.
ClipHolds(text) ==
    /\ IsSome(clip)
    /\ LET block == Unwrap(clip)
       IN  /\ Len(block) >= 1
           /\ block[Len(block)] = 0
           /\ DecodeUtf16(SubSeq(block, 1, Len(block) - 1)) = text

\* C1: the session is Idle or Recording in every state; the only step that
\* takes it from Idle to Recording is the show of a start (cmd_start_recording,
\* invoked or chosen by toggle while the overlay is hidden); the only steps
\* that take it from Recording to Idle are the hide of a stop and the hide of
\* a cancel, and a stop or a cancel that returns Ok leaves it Idle.
C1_StateMachine ==
    [][ /\ Status' \in {"Idle", "Recording"}
        /\ (Status = "Idle" /\ Status' = "Recording") =>
              \E t \in TaskIds :
                  /\ tasks[t].cmd = "start" /\ tasks[t].pc = "start_show"
                  /\ tasks'[t].shown
                  /\ tasks[t].kind = "toggle" => ~tasks[t].sawVisible
        /\ (Status = "Recording" /\ Status' = "Idle") =>
              \E t \in TaskIds :
                  /\ tasks[t].cmd \in {"stop", "cancel"}
                  /\ tasks[t].pc \in {"stop_hide", "cancel_hide"}
                  /\ tasks'[t].hid
        /\ \A t \in TaskIds :
              (/\ tasks'[t].pc = "done" /\ tasks[t].pc # "done"
               /\ tasks'[t].cmd \in {"stop", "cancel"}
               /\ tasks'[t].result = "Ok")
                  => tasks'[t].hid /\ Status' = "Idle" ]_vars

C1_Witness ==
    \E t \in TaskIds :
        /\ Returned(t) /\ tasks[t].kind = "toggle" /\ tasks[t].cmd = "stop"
        /\ tasks[t].sawVisible /\ tasks[t].result = "Ok" /\ Status = "Idle"

\* C2 as claimed: a cancel that ran while the overlay was visible has spawned
\* the /cancel request, has hidden the overlay, has touched neither the
\* clipboard nor the keyboard, and the session is Idle when it returns.
C2_CancelHidesAlways ==
    \A t \in TaskIds :
        (Returned(t) /\ tasks[t].cmd = "cancel" /\ tasks[t].sawVisible) =>
            /\ tasks[t].spawned
            /\ tasks[t].hid /\ Status = "Idle"
            /\ tasks[t].reads = 0 /\ tasks[t].writes = 0 /\ tasks[t].keys = 0

\* C2, amended: a cancel that ran while the overlay was visible has spawned the
\* /cancel request (which it does not wait for) and has touched neither the
\* clipboard nor the keyboard; if hide() succeeded it returns Ok with the
\* overlay hidden (Idle), if hide() failed it returns Err and the overlay is
\* still visible.
C2_CancelWhileRecording ==
    \A t \in TaskIds :
        (Returned(t) /\ tasks[t].cmd = "cancel" /\ tasks[t].sawVisible) =>
            /\ tasks[t].spawned
            /\ \E r \in pending \cup sent : r.path = "/cancel"
            /\ tasks[t].reads = 0 /\ tasks[t].writes = 0 /\ tasks[t].keys = 0
            /\ IF tasks[t].hideFailed
               THEN tasks[t].result = "Err" /\ ~tasks[t].hid /\ Status = "Recording"
               ELSE tasks[t].result = "Ok" /\ tasks[t].hid /\ Status = "Idle"

\* The cancel has returned Ok while its /cancel request is not sent yet.
C2_Witness ==
    \E t \in TaskIds :
        /\ Returned(t) /\ tasks[t].cmd = "cancel" /\ tasks[t].sawVisible
        /\ tasks[t].result = "Ok" /\ Status = "Idle"
        /\ \E r \in pending : r.path = "/cancel"

FailedAnswers == {"transport_error", "bad_status", "no_text"}

C4_NoKeystrokeAfterWriteFailure ==
    \A t \in TaskIds :
        /\ tasks[t].setFail # "none" =>
              /\ Returned(t) /\ tasks[t].injErr
              /\ tasks[t].keys = 0 /\ tasks[t].restores = 0 /\ tasks[t].writes = 1
              /\ tasks[t].result = (IF tasks[t].cmd = "inject" THEN "Err" ELSE "Ok")
        /\ tasks[t].keys > 0 => tasks[t].setFail = "none" /\ ~tasks[t].injErr

\* The write failed at SetClipboardData in a call that had read an old
\* content to restore.
C4_Witness ==
    \E t \in TaskIds :
        /\ Returned(t) /\ tasks[t].setFail = "setdata"
        /\ ~tasks[t].flag /\ IsSome(tasks[t].old)

\* C5 as claimed: after inject_text(t, false) succeeded, the clipboard holds
\* the readable text it held before the call; without a readable text no
\* restore is attempted and the call still returns Ok.
C5_AlwaysRestored ==
    \A t \in TaskIds :
        (Injected(t) /\ ~tasks[t].flag) =>
            /\ tasks[t].result = "Ok"
            /\ IsSome(tasks[t].old) => clip = tasks[t].prior
            /\ tasks[t].old = None => tasks[t].restores = 0

\* C5, amended: after inject_text(t, false) succeeded, if a readable text
\* was on the clipboard before the call, one restore write is attempted, and
\* if that write succeeds the clipboard holds that text again; the result of
\* the restore write is ignored (Ok is returned either way).  Without a
\* readable text no restore is attempted and the call still returns Ok.
C5_RestoredIfWritten ==
    \A t \in TaskIds :
        (Injected(t) /\ ~tasks[t].flag) =>
            /\ tasks[t].result = "Ok"
            /\ tasks[t].reads = 1
            /\ IsSome(tasks[t].old) =>
                  /\ tasks[t].restores = 1
                  /\ tasks[t].restoreOk => clip = tasks[t].prior
            /\ tasks[t].old = None => tasks[t].restores = 0 /\ tasks[t].writes = 1

C5_Witness ==
    \E t \in TaskIds :
        /\ Injected(t) /\ ~tasks[t].flag /\ tasks[t].restoreOk
        /\ clip = Some(<<97, 0>>) /\ clip = tasks[t].prior

\* C6: after inject_text(t, true) succeeded the clipboard holds t, the empty
\* text included; the call has not read the clipboard and has written it once.
C6_TextStaysOnClipboard ==
    \A t \in TaskIds :
        (Injected(t) /\ tasks[t].flag) =>
            /\ ClipHolds(Unwrap(tasks[t].text))
            /\ tasks[t].reads = 0 /\ tasks[t].old = None
            /\ tasks[t].writes = 1 /\ tasks[t].restores = 0
            /\ tasks[t].result = "Ok"

C6_Witness ==
    \E t \in TaskIds :
        /\ Injected(t) /\ tasks[t].flag /\ tasks[t].text = Some(<<>>)
        /\ ClipHolds(<<>>)

\* C7: in a stop, showProcessing comes before /stop is sent, the answer
\* before the hide, and the hide before anything of the injection: the read
\* of the setting, the clipboard read and write, the keystroke.
C7_StopOrder ==
    \A t \in TaskIds :
        tasks[t].cmd = "stop" =>
            /\ tasks[t].stopSent => tasks[t].notified
            /\ tasks[t].answered => tasks[t].stopSent
            /\ (tasks[t].hid \/ tasks[t].hideFailed) => tasks[t].answered
            /\ (\/ tasks[t].pc \in InjectSteps
                \/ tasks[t].reads > 0 \/ tasks[t].writes > 0 \/ tasks[t].keys > 0)
                  => tasks[t].hid

C7_Witness ==
    \E t \in TaskIds :
        /\ Returned(t) /\ tasks[t].cmd = "stop" /\ tasks[t].keys = 1
        /\ tasks[t].notified /\ tasks[t].stopSent /\ tasks[t].answered /\ tasks[t].hid

\* C8: a /start request, spawned or sent, comes from a start that had shown
\* the overlay before it spawned the request.
C8_ShowBeforeStart ==
    \A r \in pending \cup sent : r.path = "/start" => r.shown /\ session >= 1

C8_Witness ==
    /\ \E r \in sent : r.path = "/start" /\ r.shown
    /\ \E t \in TaskIds : Returned(t) /\ tasks[t].kind = "toggle" /\ tasks[t].cmd = "start"

\* Started by the F9 hotkey, the tray menu or Escape.
ByTrigger(t) == tasks[t].kind \in {"toggle", "escape"}

\* C9 as claimed: for hotkey, menu and Escape triggers, a toggle that arrives
\* while a stop of the session is in flight begins no second stop, so that
\* the backend never has two /stop requests of one session outstanding.
C9_OneTransitionInFlight ==
    \A t, u \in TaskIds :
        (/\ t # u /\ ByTrigger(t) /\ ByTrigger(u)
         /\ tasks[t].sess >= 1 /\ tasks[t].sess = tasks[u].sess)
            => ~(tasks[t].pc = "stop_await" /\ tasks[u].pc = "stop_await")

\* C10 as claimed: set_clipboard_text has closed the clipboard whenever it
\* has returned.
C10_ClipboardClosedOnReturn == clipOpen = FALSE

\* C11: get_clipboard_text never reports an error and never leaves open a
\* clipboard it opened.  On whatever the clipboard holds, a read that begins
\* with the clipboard closed returns with it closed, and returns None when
\* OpenClipboard, GetClipboardData or GlobalLock fails, when there is no text
\* and when the block has size zero; the read in inject_text never turns a
\* closed clipboard into an open one, and the injection goes on to the write.
C11_ReadClosesAndNeverFails ==
    /\ [](\A failAt \in GetFailures :
              LET got == GetClipboardText(clip, FALSE, failAt)
              IN  /\ ~got.open
                  /\ (failAt # "none" \/ clip = None \/ GlobalSize(Unwrap(clip)) = 0)
                        => got.value = None)
    /\ [][\A t \in TaskIds :
              tasks'[t].reads > tasks[t].reads =>
                  /\ clipOpen' => clipOpen
                  /\ tasks'[t].pc = "inj_set" /\ ~tasks'[t].injErr
                  /\ tasks'[t].result = "none"]_vars

\* A read of a clipboard that holds a text has failed: the clipboard is
\* closed, no old content is kept and the injection is at its write.
C11_Witness ==
    \E t \in TaskIds :
        /\ tasks[t].pc = "inj_set" /\ tasks[t].reads = 1
        /\ tasks[t].prior = Some(<<97, 0>>) /\ tasks[t].old = None
        /\ ~clipOpen

\* C12: the body of the /start request a start spawns is built from the
\* configuration alone: model_size is the selected model, device the selected
\* device, language the selected language, or null exactly for "auto", and
\* the key device_index is there, with the selected index, exactly if a
\* microphone is selected; no other key is sent, and the default
\* configuration gives {model_size: small, language: en, device: auto}.
C12_StartBodyFromConfig ==
    [][\A t \in TaskIds :
          (tasks[t].pc = "start_spawn" /\ tasks'[t].pc = "done") =>
              \E r \in pending' :
                  /\ r.path = "/start" /\ IsSome(r.body)
                  /\ LET b == Unwrap(r.body)
                     IN  /\ b.model_size = selected_model
                         /\ b.device = selected_device
                         /\ (b.language = None) <=> (selected_language = "auto")
                         /\ selected_language # "auto" => b.language = Some(selected_language)
                         /\ ("device_index" \in DOMAIN b) <=> IsSome(selected_microphone)
                         /\ IsSome(selected_microphone) =>
                                b.device_index = Unwrap(selected_microphone)
                         /\ DOMAIN b \subseteq {"model_size", "language", "device",
                                                 "device_index"}
                         /\ (/\ selected_model = "small" /\ selected_device = "auto"
                             /\ selected_microphone = None /\ selected_language = "en")
                                => b = [device |-> "auto", language |-> Some("en"),
                                        model_size |-> "small"]]_vars

\* A /start request was sent with null for the language and with a
\* device_index, for a model and a device that are not the defaults.
C12_Witness ==
    \E r \in sent :
        /\ r.path = "/start" /\ IsSome(r.body)
        /\ Unwrap(r.body) = StartBody("base", "cuda", Some(1), "auto")
        /\ Unwrap(r.body).language = None
        /\ "device_index" \in DOMAIN Unwrap(r.body)

\* C13: the handle of the backend process is in one place at any time: in the
\* state, with the one quit handler that took it and has not killed yet, or
\* killed.  So kill() is called at most once for any number of quit events,
\* and a handler that takes after another has taken finds None and kills
\* nothing.
C13_KillAtMostOnce ==
    /\ [](/\ Cardinality({t \in TaskIds : tasks[t].pc = "quit_kill"}) + kills
                 + (IF IsSome(backend_child) THEN 1 ELSE 0) = 1
          /\ kills <= 1)
    /\ [][\A t \in TaskIds :
              (tasks[t].pc = "quit_take" /\ tasks'[t].pc # "quit_take") =>
                  /\ backend_child' = None
                  /\ backend_child = None =>
                        /\ tasks'[t].child = None
                        /\ tasks'[t].pc = "quit_exit"
                        /\ kills' = kills]_vars

\* Two quit handlers at once: one took the handle and killed, the other found
\* None, and both are about to exit.
C13_Witness ==
    \E t, u \in TaskIds :
        /\ t # u /\ kills = 1 /\ backend_child = None
        /\ tasks[t].cmd = "quit" /\ tasks[t].pc = "quit_exit" /\ IsSome(tasks[t].child)
        /\ tasks[u].cmd = "quit" /\ tasks[u].pc = "quit_exit" /\ tasks[u].child = None

\* The block c of the clipboard holds text: UTF-16 units that end with the
\* terminator and read as text before it.
Holds(c, text) ==
    /\ IsSome(c)
    /\ LET block == Unwrap(c)
       IN  /\ Len(block) >= 1
           /\ block[Len(block)] = 0
           /\ DecodeUtf16(SubSeq(block, 1, Len(block) - 1)) = text

\* The paste chord: modifier down, key down, key up, modifier up.
CtrlV ==
    << <<"VK_CONTROL", "down">>, <<"VK_V", "down">>, <<"VK_V", "up">>, <<"VK_CONTROL", "up">> >>

\* A stop that got a transcript and whose injection, with the clipboard flag
\* false, found the text p on the clipboard.
StopWithPrior(t) ==
    /\ Returned(t) /\ tasks[t].cmd = "stop" /\ tasks[t].answer = "text"
    /\ ~tasks[t].flag /\ tasks[t].reads = 1
    /\ IsSome(tasks[t].prior) /\ Len(Unwrap(tasks[t].prior)) > 0

C15_FailedInjectionNotStuck ==
    \A t \in TaskIds :
        (Returned(t) /\ tasks[t].cmd = "stop" /\ tasks[t].injErr) =>
            /\ tasks[t].hid /\ ~tasks[t].hideFailed
            /\ Status = "Idle"
            /\ tasks[t].result = "Ok"
            /\ tasks[t].keys = 0
            /\ ToggleChoice(visible).cmd = "start"

\* A stop pressed by the shortcut has returned after its clipboard write failed.
C15_Witness ==
    \E t \in TaskIds :
        /\ Returned(t) /\ tasks[t].cmd = "stop" /\ tasks[t].kind = "toggle"
        /\ tasks[t].injErr /\ tasks[t].setFail = "setdata"
        /\ tasks[t].sawVisible /\ ~visible

\* C16: every cmd_stop_recording that has begun ends, and unless hide() failed
\* it has hidden the overlay and the session is Idle when it ends; a stop that
\* awaits its /stop call leaves the wait only by the end of that call.
C16_StopTerminates ==
    /\ \A t \in TaskIds :
          (tasks[t].pc = "stop_notify")
              ~> (/\ Returned(t) /\ tasks[t].cmd = "stop" /\ tasks[t].answered
                  /\ (tasks[t].hideFailed \/ (tasks[t].hid /\ Status = "Idle")))
    /\ [][\A t \in TaskIds :
              (tasks[t].pc = "stop_await" /\ tasks'[t] # tasks[t]) =>
                  (tasks'[t].pc = "stop_hide" /\ tasks'[t].answered)]_vars

\* A stop whose /stop call ended in a transport failure has hidden the overlay
\* and returned.
C16_Witness ==
    \E t \in TaskIds :
        /\ Returned(t) /\ tasks[t].cmd = "stop" /\ tasks[t].sawVisible
        /\ tasks[t].answer = "transport_error"
        /\ tasks[t].hid /\ ~visible

\* C17: the flag a stop's injection uses is the clipboard setting at the
\* moment of the injection, read after the /stop answer and the hide of the
\* overlay; with that flag false the injection reads the clipboard and
\* restores what it read, with that flag true it does neither.
C17_FlagReadAtInjection ==
    /\ [][\A t \in TaskIds :
              (tasks[t].cmd = "stop" /\ tasks[t].pc # "inj_get" /\ tasks'[t].pc = "inj_get") =>
                  /\ tasks[t].answered /\ tasks[t].hid
                  /\ tasks'[t].flag = use_clipboard]_vars
    /\ [](\A t \in TaskIds :
              (Returned(t) /\ tasks[t].cmd = "stop" /\ tasks[t].keys = 1) =>
                  /\ tasks[t].flag => (tasks[t].reads = 0 /\ tasks[t].restores = 0)
                  /\ ~tasks[t].flag =>
                        /\ tasks[t].reads = 1
                        /\ tasks[t].restores = (IF IsSome(tasks[t].old) THEN 1 ELSE 0))

\* The setting was true when the stop began and was set to false while the
\* stop was in flight: the injection restored the previous clipboard.
C17_Witness ==
    \E t \in TaskIds :
        /\ Returned(t) /\ tasks[t].cmd = "stop"
        /\ tasks[t].flagAtStop /\ ~tasks[t].flag
        /\ tasks[t].restores = 1 /\ tasks[t].restoreOk
        /\ clip = tasks[t].prior

\* C18: the /start request is handed to a detached future in the step in
\* which cmd_start_recording returns Ok; the end of that request, whatever
\* its outcome, and its log line change neither the overlay nor the session
\* nor any command in flight.
C18_StartFailureChangesNothing ==
    /\ [][(resolved' # resolved) =>
              UNCHANGED <<visible, session, tasks, use_clipboard, clip, clipOpen, cancelled>>]_vars
    /\ [][\A r \in pending' \ pending :
              r.path = "/start" =>
                  \E t \in TaskIds :
                      /\ tasks[t].pc = "start_spawn"
                      /\ tasks'[t].pc = "done" /\ tasks'[t].result = "Ok"]_vars

\* A /start request has failed while the overlay is visible and no command is
\* in flight: the session is still Recording.
C18_Witness ==
    /\ \E o \in {"bad_status", "transport_error"} : <<"/start", o>> \in resolved
    /\ Status = "Recording" /\ session = 1
    /\ \A t \in TaskIds : ~Active(t)

\* C19: a cmd_stop_recording whose hide() failed returns an error, has read
\* and written no clipboard and sent no keystroke, whatever the backend
\* answered, and the failed hide leaves the overlay as it was; a
\* cmd_start_recording whose positioning or show failed returns an error
\* and hands no /start request to a detached future.
C19_WindowFailureStopsCommand ==
    /\ [](\A t \in TaskIds :
              (Returned(t) /\ tasks[t].cmd = "stop" /\ tasks[t].hideFailed) =>
                  /\ tasks[t].result = "Err" /\ ~tasks[t].hid
                  /\ tasks[t].reads = 0 /\ tasks[t].writes = 0
                  /\ tasks[t].keys = 0 /\ tasks[t].typed = <<>>
                  /\ tasks[t].sawVisible => Status = "Recording")
    /\ [][\A t \in TaskIds :
              (tasks[t].pc = "stop_hide" /\ tasks'[t].hideFailed) =>
                  (visible' = visible /\ tasks'[t].pc = "done")]_vars
    /\ [][\A t \in TaskIds :
              (tasks[t].pc = "start_show" /\ tasks'[t].pc \notin {"start_show", "start_spawn"}) =>
                  /\ tasks'[t].pc = "done" /\ tasks'[t].result = "Err"
                  /\ ~tasks'[t].shown
                  /\ UNCHANGED <<visible, session, pending, sent>>]_vars

\* A stop pressed while recording got a transcript, its hide() failed: it has
\* returned an error, nothing was injected and the overlay is still visible.
C19_Witness ==
    \E t \in TaskIds :
        /\ Returned(t) /\ tasks[t].cmd = "stop" /\ tasks[t].kind = "toggle"
        /\ tasks[t].answer = "text" /\ tasks[t].text = Some(<<128512>>)
        /\ tasks[t].hideFailed /\ tasks[t].result = "Err"
        /\ visible

\* C20 as claimed: once a cancel has hidden the overlay of a session, a
\* cmd_stop_recording that began while that session was recording neither
\* writes the clipboard nor sends the paste keystroke, in any interleaving.
C20_NoInjectionAfterCancel ==
    [][\A t \in TaskIds :
          (/\ tasks[t].cmd = "stop" /\ tasks[t].sawVisible
           /\ tasks[t].sess \in cancelled
           /\ tasks'[t].cmd = "stop") =>
              /\ tasks'[t].writes = tasks[t].writes
              /\ tasks'[t].keys = tasks[t].keys]_vars

\* C21 as claimed: at the step in which a cmd_stop_recording that began while
\* recording and has hidden the overlay sends its paste keystroke, the
\* overlay is not visible, in any interleaving.
C21_OverlayHiddenAtKeystroke ==
    [][\A t \in TaskIds :
          (/\ tasks[t].cmd = "stop" /\ tasks[t].sawVisible /\ tasks[t].hid
           /\ tasks'[t].cmd = "stop"
           /\ tasks'[t].keys > tasks[t].keys) =>
              (~visible /\ ~visible')]_vars

\* C22 as claimed: when the /stop or the /cancel request of a session goes
\* out to the backend, the /start request of that session has gone out
\* before, however the detached start request is scheduled.
C22_StartSentFirst ==
    [][\A r \in sent' \ sent :
          (r.path \in {"/stop", "/cancel"} /\ r.sess > 0) =>
              \E q \in sent : q.path = "/start" /\ q.sess = r.sess]_vars

\* C23 as claimed: when the injections that overlapped have all finished,
\* each of them run with the clipboard flag false and without a failure, the
\* clipboard holds the text it held before the first of them began.
C23_OverlapPreservesClipboard ==
    (/\ overlap[1] = "clean"
     /\ \A t \in TaskIds : tasks[t].pc \notin {"inj_set", "inj_key", "inj_restore"})
        => clip = overlap[2]

\* C24 as claimed: the model and the device of every /start request are the
\* initial defaults or the two arguments of one set_model_and_device call, in
\* any interleaving of set_model_and_device with cmd_start_recording.
C24_ModelDeviceFromOneCall ==
    \A r \in pending \cup sent :
        r.path = "/start" =>
            <<Unwrap(r.body).model_size, Unwrap(r.body).device>>
                \in {<<"small", "auto">>} \cup set_calls

====
